---- MODULE Spec2Model ----
(***************************************************************************)
(* Model of OpenSeaBot (src/OpenSeaBot.js): the monitoring loop            *)
(* monitorCollection, the executors buyNow and makeOffer, and the helpers  *)
(* fetchNewListings, fetchListingOrder, wrapEthIfNeeded, approveWeth and   *)
(* getRoyaltyInfo.  One action per await point of the single async task.   *)
(*                                                                         *)
(* Amounts are integers in base units (the analogue of wei).  TLC integers *)
(* are 32 bit, so the base unit of the model is 0.001 ETH and the unit of  *)
(* gas prices is 1 gwei.  An amount in ETH (a JavaScript number) is        *)
(* represented by the rational number of base units it stands for, as a    *)
(* numerator over offerPercentageDen; the rounding drift of the floating   *)
(* point product price * offerPercentage is not modelled.                  *)
(***************************************************************************)
EXTENDS Integers, Sequences, FiniteSets, TLC

VARIABLES
    pc,           \* position of the single task
    listings,     \* batch returned by fetchNewListings in this cycle
    i,            \* index of the for loop over the batch (1-based)
    fetchFailed,  \* the axios request of this cycle's FETCH failed
    sleeps,       \* delays started since the last FETCH was issued
    calls,        \* executor invocations made by the loop in this cycle
    call,         \* the executor call in progress (or the last one of the cycle)
    loc,          \* local variables of the executor call in progress
    wethBalance,  \* WETH balanceOf(wallet.address)
    allowance,    \* WETH allowance(wallet.address, SEAPORT_ADDRESS)
    prevWrap,     \* the last wrapEthIfNeeded call of this cycle that returned
    prevApprove,  \* the last approveWeth call of this cycle that returned
    mem           \* history kept across cycles, and the external stop request

vars == <<pc, listings, i, fetchFailed, sleeps, calls, call, loc,
          wethBalance, allowance, prevWrap, prevApprove, mem>>

(***************************************************************************)
(* Bounds of the model.                                                    *)
(***************************************************************************)
MaxBatch == 3

(***************************************************************************)
(* Configuration (config.js, DEFAULT_CONFIG) and literals of the code.     *)
(***************************************************************************)
buyThreshold == 100
offerPercentageNum == 8
offerPercentageDen == 10
maxGasPriceWei == 50
pollingInterval == 60000
errorRetryDelay == 30000
gasLimit == 300000
fallbackBasisPoints == 1000
basisPointsDivisor == 10000
fallbackRecipient == "0x0000a26b"
walletAddress == "wallet"

(***************************************************************************)
(* Inputs the collaborators can deliver.                                   *)
(***************************************************************************)
NoPrice == -1    \* listing.ending_price is undefined
NoAssetListing == [asset |-> FALSE, token_id |-> 0, contract |-> "none", ending_price |-> NoPrice]

Listing(t, p) == [asset |-> TRUE, token_id |-> t, contract |-> "0xC", ending_price |-> p]

ListingValues ==
    { NoAssetListing,
      Listing(1, NoPrice),
      Listing(1, 50),
      Listing(2, 100),
      Listing(1, 101),
      Listing(2, 200),
      Listing(1, 1250000) }

RECURSIVE SeqsUpTo(_, _)
SeqsUpTo(S, n) ==
    IF n = 0 THEN { <<>> }
    ELSE LET shorter == SeqsUpTo(S, n - 1)
         IN  shorter \cup { Append(s, x) : s \in { t \in shorter : Len(t) = n - 1 }, x \in S }

Batches == SeqsUpTo(ListingValues, MaxBatch)

GasPrices == { 20, 50, 51 }
RoyaltyBasisPoints == { 0, 999, 10000 }
RoyaltyRecipients == { "payout" }

(***************************************************************************)
(* Pure parts of the code.                                                 *)
(***************************************************************************)
\* price * this.config.offerPercentage, as a numerator over offerPercentageDen
OfferPrice(price) == price * offerPercentageNum

\* ethers.utils.parseEther(offerAmountEth.toString()): defined only when the
\* amount is a whole number of base units, throws otherwise
ParseEtherOk(amountNum) == amountNum % offerPercentageDen = 0
ParseEther(amountNum) == amountNum \div offerPercentageDen

ClassifyInclusive(price) == IF price <= buyThreshold THEN "buyNow" ELSE "makeOffer"
\* if (price < this.config.buyThreshold) buyNow else makeOffer
Classify(price) == IF price < buyThreshold THEN "buyNow" ELSE "makeOffer"

\* the amount the executor is called with, as a numerator over offerPercentageDen
ExecutorAmount(price) ==
    IF Classify(price) = "buyNow" THEN price * offerPercentageDen ELSE OfferPrice(price)

GasTooHighNever(currentGasPrice) == FALSE
GasTooHighInclusive(currentGasPrice) == currentGasPrice >= maxGasPriceWei
\* currentGasPrice.gt(this.maxGasPriceWei)
GasTooHigh(currentGasPrice) == currentGasPrice > maxGasPriceWei

\* wethBalance.lt(requiredWei)
NeedsWrap(balance, requiredWei) == balance < requiredWei
EthToWrapWhole(balance, requiredWei) == requiredWei
\* requiredWei.sub(wethBalance)
EthToWrap(balance, requiredWei) == requiredWei - balance

NeedsApproveInclusive(currentAllowance, amountWei) == currentAllowance <= amountWei
\* currentAllowance.lt(amountWei)
NeedsApprove(currentAllowance, amountWei) == currentAllowance < amountWei
\* the amount approveWeth passes to approve(SEAPORT_ADDRESS, amountWei)
ApproveAmount(currentAllowance, amountWei) == amountWei

\* await this.getRoyaltyInfo(assetContract) || { recipient: ..., basisPoints: 1000 }
NullRoyalty == [recipient |-> "null", basisPoints |-> -1]
RoyaltyNoFallback(info) == info
RoyaltyOrFallback(info) ==
    IF info = NullRoyalty
    THEN [recipient |-> fallbackRecipient, basisPoints |-> fallbackBasisPoints]
    ELSE info

\* offerAmountWei.mul(royaltyInfo.basisPoints).div(10000) on arbitrary
\* precision integers: the product is split so that it stays within 32 bits,
\* (q * d + r) * b \div d = q * b + (r * b) \div d
RoyaltyAmountCeil(offerAmountWei, basisPoints) ==
    (offerAmountWei \div basisPointsDivisor) * basisPoints
    + ((offerAmountWei % basisPointsDivisor) * basisPoints + basisPointsDivisor - 1)
          \div basisPointsDivisor
RoyaltyAmount(offerAmountWei, basisPoints) ==
    (offerAmountWei \div basisPointsDivisor) * basisPoints
    + ((offerAmountWei % basisPointsDivisor) * basisPoints) \div basisPointsDivisor

WhileConditionOnce == FALSE
\* while (true)
WhileCondition == TRUE

\* if (!order): undefined and null are both falsy
OrderMissingStrict(order) == order = "undefined"
OrderMissing(order) == order \in {"undefined", "null"}

(***************************************************************************)
(* Records of the executor call in progress.                               *)
(***************************************************************************)
NoCall == [fn |-> "none", contract |-> "none", tokenId |-> 0, amount |-> 0,
           steps |-> <<>>, outcome |-> "none", error |-> "none"]

NoLoc == [order |-> "unset", gas |-> 0, offerWei |-> 0, ethToWrap |-> 0,
          royalty |-> NullRoyalty, created |-> <<>>]

\* a returned prerequisite call: the amount it was called with, the number of
\* transactions it submitted, and the number submitted by the returned call
\* before it when that one had the same amount (-1 otherwise)
NoPrev == [required |-> -1, txs |-> 0, priorTxs |-> -1]
NextPrev(prev, required, txs) ==
    [required |-> required, txs |-> txs,
     priorTxs |-> IF prev.required = required THEN prev.txs ELSE -1]

Did(op) == \E k \in 1..Len(call.steps) : call.steps[k].op = op
CountOf(op) == Cardinality({ k \in 1..Len(call.steps) : call.steps[k].op = op })
Step(op, val) == [op |-> op, val |-> val]

\* history across cycles: rec selects what is recorded ("off": nothing,
\* "listings": the first listing dispatched in the previous cycle, "offers":
\* the last makeOffer that failed after its wrap was confirmed); stop is the
\* external stop request, which no statement of the code reads
NoMem == [rec |-> "off", stop |-> FALSE, prevFirst |-> NoAssetListing,
          failedOffer |-> -1, failedApproved |-> FALSE]

InitBase ==
    /\ pc = "fetch"
    /\ listings = <<>>
    /\ i = 1
    /\ fetchFailed = FALSE
    /\ sleeps = <<>>
    /\ calls = <<>>
    /\ call = NoCall
    /\ loc = NoLoc
    /\ wethBalance = 0
    /\ allowance = 0
    /\ prevWrap = NoPrev
    /\ prevApprove = NoPrev

Init == InitBase /\ mem = NoMem
InitListings == InitBase /\ mem = [NoMem EXCEPT !.rec = "listings"]
InitOffers == InitBase /\ mem = [NoMem EXCEPT !.rec = "offers"]

chain == <<wethBalance, allowance>>
prevs == <<prevWrap, prevApprove>>

(***************************************************************************)
(* monitorCollection and fetchNewListings                                  *)
(***************************************************************************)
FetchNewListingsRethrow ==
    /\ pc = "fetch"
    /\ \E res \in {"events", "noEvents", "failed"} :
         /\ fetchFailed' = (res = "failed")
         /\ IF res = "events"
            THEN \E b \in Batches : listings' = b
            ELSE listings' = <<>>
         /\ pc' = IF res = "failed" THEN "catch" ELSE "for"
    /\ sleeps' = <<>>
    /\ UNCHANGED <<mem, i, calls, call, loc, chain, prevs>>

\* const listings = await this.fetchNewListings(collectionSlug): the request
\* succeeds with asset_events, succeeds without them, or fails; the two
\* latter give the empty batch
FetchNewListings ==
    /\ pc = "fetch"
    /\ \E res \in {"events", "noEvents", "failed"} :
         /\ fetchFailed' = (res = "failed")
         /\ IF res = "events"
            THEN \E b \in Batches : listings' = b
            ELSE listings' = <<>>
    /\ sleeps' = <<>>
    /\ pc' = "for"
    /\ UNCHANGED <<mem, i, calls, call, loc, chain, prevs>>

\* for (const listing of listings): a listing without asset is skipped
ForSkip ==
    /\ pc = "for"
    /\ i <= Len(listings)
    /\ ~listings[i].asset
    /\ i' = i + 1
    /\ UNCHANGED <<mem, pc, listings, fetchFailed, sleeps, calls, call, loc, chain, prevs>>

\* formatEther(listing.ending_price) throws on an undefined price
ForBadPrice ==
    /\ pc = "for"
    /\ i <= Len(listings)
    /\ listings[i].asset
    /\ listings[i].ending_price = NoPrice
    /\ pc' = "catch"
    /\ UNCHANGED <<mem, listings, i, fetchFailed, sleeps, calls, call, loc, chain, prevs>>

ForDispatchNoAwait ==
    /\ pc = "for"
    /\ i <= Len(listings)
    /\ listings[i].asset
    /\ listings[i].ending_price # NoPrice
    /\ LET l == listings[i]
           fn == Classify(l.ending_price)
           c == [fn |-> fn, contract |-> l.contract, tokenId |-> l.token_id,
                 amount |-> ExecutorAmount(l.ending_price),
                 steps |-> <<>>, outcome |-> "running", error |-> "none"]
       IN  /\ call' = c
           /\ calls' = Append(calls, [idx |-> i, fn |-> fn, contract |-> c.contract,
                                      tokenId |-> c.tokenId, amount |-> c.amount])
    /\ i' = i + 1
    /\ loc' = NoLoc
    /\ UNCHANGED <<mem, pc, listings, fetchFailed, sleeps, chain, prevs>>

\* the listing is classified and its executor is invoked
ForDispatch ==
    /\ pc = "for"
    /\ i <= Len(listings)
    /\ listings[i].asset
    /\ listings[i].ending_price # NoPrice
    /\ LET l == listings[i]
           fn == Classify(l.ending_price)
           c == [fn |-> fn, contract |-> l.contract, tokenId |-> l.token_id,
                 amount |-> ExecutorAmount(l.ending_price),
                 steps |-> <<>>, outcome |-> "running", error |-> "none"]
       IN  /\ call' = c
           /\ calls' = Append(calls, [idx |-> i, fn |-> fn, contract |-> c.contract,
                                      tokenId |-> c.tokenId, amount |-> c.amount])
           /\ pc' = IF fn = "buyNow" THEN "bn_fetchOrder" ELSE "mo_parse"
    /\ loc' = NoLoc
    /\ UNCHANGED <<mem, listings, i, fetchFailed, sleeps, chain, prevs>>

ForDoneRetryDelay ==
    /\ pc = "for"
    /\ i > Len(listings)
    /\ sleeps' = Append(sleeps, errorRetryDelay)
    /\ pc' = "delay"
    /\ UNCHANGED <<mem, listings, i, fetchFailed, calls, call, loc, chain, prevs>>

\* the batch is exhausted: await this.delay(this.config.pollingInterval)
ForDone ==
    /\ pc = "for"
    /\ i > Len(listings)
    /\ sleeps' = Append(sleeps, pollingInterval)
    /\ pc' = "delay"
    /\ UNCHANGED <<mem, listings, i, fetchFailed, calls, call, loc, chain, prevs>>

MonitorCatchNoDelay ==
    /\ pc = "catch"
    /\ pc' = "fetch"
    /\ listings' = <<>>
    /\ i' = 1
    /\ calls' = <<>>
    /\ call' = NoCall
    /\ loc' = NoLoc
    /\ prevWrap' = NoPrev
    /\ prevApprove' = NoPrev
    /\ UNCHANGED <<mem, fetchFailed, sleeps, chain>>

\* catch (error) of the loop: await this.delay(this.config.errorRetryDelay)
MonitorCatch ==
    /\ pc = "catch"
    /\ sleeps' = Append(sleeps, errorRetryDelay)
    /\ pc' = "delay"
    /\ mem' = IF /\ mem.rec = "offers"
                 /\ call.fn = "makeOffer" /\ call.outcome = "threw"
                 /\ Did("allowance")
              THEN [mem EXCEPT !.failedOffer = loc.offerWei,
                               !.failedApproved = Did("getRoyaltyInfo")]
              ELSE mem
    /\ UNCHANGED <<listings, i, fetchFailed, calls, call, loc, chain, prevs>>

\* the timer of delay(ms) fires and the while loop starts its next iteration;
\* the block-scoped variables of the finished iteration are gone
DelayElapsed ==
    /\ pc = "delay"
    /\ pc' = IF WhileCondition THEN "fetch" ELSE "returned"
    /\ listings' = <<>>
    /\ i' = 1
    /\ calls' = <<>>
    /\ call' = NoCall
    /\ loc' = NoLoc
    /\ prevWrap' = NoPrev
    /\ prevApprove' = NoPrev
    /\ mem' = IF mem.rec = "listings"
              THEN [mem EXCEPT !.prevFirst = IF calls = <<>> THEN NoAssetListing
                                             ELSE listings[calls[1].idx]]
              ELSE mem
    /\ UNCHANGED <<fetchFailed, sleeps, chain>>

(***************************************************************************)
(* Shared shapes of the executor steps.                                    *)
(***************************************************************************)
\* a step of the executor that throws: control goes to the executor's catch
Throws(op, val, err, handler) ==
    /\ call' = [call EXCEPT !.steps = Append(@, Step(op, val)), !.error = err]
    /\ pc' = handler

\* a step of the executor that completes and goes on to next
Goes(op, val, next) ==
    /\ call' = [call EXCEPT !.steps = Append(@, Step(op, val))]
    /\ pc' = next

\* the executor returned its result to the loop, which logs it and moves on
Returns(op, val) ==
    /\ call' = [call EXCEPT !.steps = Append(@, Step(op, val)), !.outcome = "returned"]
    /\ pc' = "for"
    /\ i' = i + 1

loopFrame == <<listings, fetchFailed, sleeps, calls>>

(***************************************************************************)
(* buyNow                                                                  *)
(***************************************************************************)
\* 1. const order = await this.fetchListingOrder(...): orders[0], undefined
\* for an empty order list, null for a failed request;
\* if (!order) throw new Error('No valid order found')
BuyFetchOrder ==
    /\ pc = "bn_fetchOrder"
    /\ \E res \in {"order", "undefined", "null"} :
         /\ loc' = [loc EXCEPT !.order = res]
         /\ IF ~OrderMissing(res)
            THEN Goes("fetchListingOrder", 0, "bn_validate")
            ELSE Throws("fetchListingOrder", 0, "No valid order found", "bn_catch")
    /\ UNCHANGED <<mem, i, loopFrame, chain, prevs>>

\* 2. const { isValid } = await this.seaport.validate(...);
\* if (!isValid) throw new Error('Invalid order')
BuyValidate ==
    /\ pc = "bn_validate"
    /\ \E res \in {"valid", "invalid", "rejected"} :
         CASE res = "valid" -> Goes("validate", 1, "bn_fulfill")
           [] res = "invalid" -> Throws("validate", 0, "Invalid order", "bn_catch")
           [] res = "rejected" -> Throws("validate", -1, "validate rejected", "bn_catch")
    /\ UNCHANGED <<mem, i, loc, loopFrame, chain, prevs>>

\* 3. const { actions } = await this.seaport.fulfillOrder(...)
BuyFulfill ==
    /\ pc = "bn_fulfill"
    /\ \E ok \in BOOLEAN :
         IF ok THEN Goes("fulfillOrder", 1, "bn_build")
         ELSE Throws("fulfillOrder", -1, "fulfillOrder rejected", "bn_catch")
    /\ UNCHANGED <<mem, i, loc, loopFrame, chain, prevs>>

\* 4. const transaction = await actions[0].transactionMethods.buildTransaction()
BuyBuild ==
    /\ pc = "bn_build"
    /\ \E ok \in BOOLEAN :
         IF ok THEN Goes("buildTransaction", 1, "bn_gas")
         ELSE Throws("buildTransaction", -1, "buildTransaction rejected", "bn_catch")
    /\ UNCHANGED <<mem, i, loc, loopFrame, chain, prevs>>

\* const currentGasPrice = await this.provider.getGasPrice();
\* if (currentGasPrice.gt(this.maxGasPriceWei)) throw ...; the transaction
\* gets gasPrice and gasLimit
BuyGas ==
    /\ pc = "bn_gas"
    /\ \/ \E g \in GasPrices :
            /\ loc' = [loc EXCEPT !.gas = g]
            /\ IF GasTooHigh(g)
               THEN Throws("getGasPrice", g, "Gas price too high", "bn_catch")
               ELSE Goes("getGasPrice", g, "bn_send")
       \/ /\ loc' = loc
          /\ Throws("getGasPrice", -1, "getGasPrice rejected", "bn_catch")
    /\ UNCHANGED <<mem, i, loopFrame, chain, prevs>>

\* 5. const txResponse = await this.wallet.sendTransaction(transaction)
BuySend ==
    /\ pc = "bn_send"
    /\ \E ok \in BOOLEAN :
         IF ok THEN Goes("sendTransaction", loc.gas, "bn_wait")
         ELSE Throws("sendTransaction", -1, "sendTransaction rejected", "bn_catch")
    /\ UNCHANGED <<mem, i, loc, loopFrame, chain, prevs>>

BuyWaitNoStatusCheck ==
    /\ pc = "bn_wait"
    /\ \E res \in {"status1", "status0", "rejected"} :
         CASE res = "status1" -> Returns("wait", 1) /\ UNCHANGED loc
           [] res = "status0" -> Returns("wait", 0) /\ UNCHANGED loc
           [] res = "rejected" ->
                Throws("wait", -1, "wait rejected", "bn_catch") /\ UNCHANGED <<i, loc>>
    /\ UNCHANGED <<mem, loopFrame, chain, prevs>>

\* const receipt = await txResponse.wait();
\* if (receipt.status === 0) throw new Error('Transaction failed');
\* return { txHash, nftId, price }
BuyWait ==
    /\ pc = "bn_wait"
    /\ \E res \in {"status1", "status0", "rejected"} :
         CASE res = "status1" -> Returns("wait", 1) /\ UNCHANGED loc
           [] res = "status0" ->
                Throws("wait", 0, "Transaction failed", "bn_catch") /\ UNCHANGED <<i, loc>>
           [] res = "rejected" ->
                Throws("wait", -1, "wait rejected", "bn_catch") /\ UNCHANGED <<i, loc>>
    /\ UNCHANGED <<mem, loopFrame, chain, prevs>>

\* catch (error) { console.error('BuyNow error:', ...); throw error; }
BuyNowCatch ==
    /\ pc = "bn_catch"
    /\ call' = [call EXCEPT !.outcome = "threw"]
    /\ pc' = "catch"
    /\ UNCHANGED <<mem, i, loc, loopFrame, chain, prevs>>

(***************************************************************************)
(* makeOffer, wrapEthIfNeeded, approveWeth, getRoyaltyInfo                 *)
(***************************************************************************)
\* const offerAmountWei = ethers.utils.parseEther(offerAmountEth.toString())
OfferParse ==
    /\ pc = "mo_parse"
    /\ IF ParseEtherOk(call.amount)
       THEN /\ loc' = [loc EXCEPT !.offerWei = ParseEther(call.amount)]
            /\ Goes("parseEther", ParseEther(call.amount), "mo_balanceOf")
       ELSE /\ loc' = loc
            /\ Throws("parseEther", -1, "fractional component exceeds decimals", "mo_catch")
    /\ UNCHANGED <<mem, i, loopFrame, chain, prevs>>

\* wrapEthIfNeeded: const wethBalance = await wethContract.balanceOf(...);
\* if (wethBalance.lt(requiredWei)) ethToWrap = requiredWei.sub(wethBalance),
\* otherwise the helper returns
WrapBalanceOf ==
    /\ pc = "mo_balanceOf"
    /\ \/ /\ NeedsWrap(wethBalance, loc.offerWei)
          /\ loc' = [loc EXCEPT !.ethToWrap = EthToWrap(wethBalance, loc.offerWei)]
          /\ Goes("balanceOf", wethBalance, "mo_deposit")
          /\ UNCHANGED prevWrap
       \/ /\ ~NeedsWrap(wethBalance, loc.offerWei)
          /\ loc' = loc
          /\ Goes("balanceOf", wethBalance, "mo_allowance")
          /\ prevWrap' = NextPrev(prevWrap, loc.offerWei, 0)
       \/ /\ loc' = loc
          /\ Throws("balanceOf", -1, "balanceOf rejected", "mo_catch")
          /\ UNCHANGED prevWrap
    /\ UNCHANGED <<mem, i, loopFrame, chain, prevApprove>>

WrapDepositNoWait ==
    /\ pc = "mo_deposit"
    /\ \E ok \in BOOLEAN :
         IF ok THEN Goes("deposit", loc.ethToWrap, "mo_allowance")
         ELSE Throws("depositRejected", loc.ethToWrap, "deposit rejected", "mo_catch")
    /\ UNCHANGED <<mem, i, loc, loopFrame, chain, prevs>>

\* const tx = await wethContract.deposit({ value: ethToWrap })
WrapDeposit ==
    /\ pc = "mo_deposit"
    /\ \E ok \in BOOLEAN :
         IF ok THEN Goes("deposit", loc.ethToWrap, "mo_depositWait")
         ELSE Throws("depositRejected", loc.ethToWrap, "deposit rejected", "mo_catch")
    /\ UNCHANGED <<mem, i, loc, loopFrame, chain, prevs>>

\* await tx.wait(): the confirmed deposit credits the WETH balance
WrapWait ==
    /\ pc = "mo_depositWait"
    /\ \/ /\ wethBalance' = wethBalance + loc.ethToWrap
          /\ Goes("depositWait", 1, "mo_allowance")
          /\ prevWrap' = NextPrev(prevWrap, loc.offerWei, 1)
       \/ /\ Throws("depositWait", -1, "deposit reverted", "mo_catch")
          /\ UNCHANGED <<wethBalance, prevWrap>>
    /\ UNCHANGED <<mem, i, loc, loopFrame, allowance, prevApprove>>

\* approveWeth: const currentAllowance = await wethContract.allowance(...);
\* if (currentAllowance.lt(amountWei)) approve, otherwise the helper returns
ApproveAllowance ==
    /\ pc = "mo_allowance"
    /\ \/ /\ NeedsApprove(allowance, loc.offerWei)
          /\ Goes("allowance", allowance, "mo_approve")
          /\ UNCHANGED prevApprove
       \/ /\ ~NeedsApprove(allowance, loc.offerWei)
          /\ Goes("allowance", allowance, "mo_royalty")
          /\ prevApprove' = NextPrev(prevApprove, loc.offerWei, 0)
       \/ /\ Throws("allowance", -1, "allowance rejected", "mo_catch")
          /\ UNCHANGED prevApprove
    /\ UNCHANGED <<mem, i, loc, loopFrame, chain, prevWrap>>

\* const tx = await wethContract.approve(SEAPORT_ADDRESS, amountWei)
ApproveSend ==
    /\ pc = "mo_approve"
    /\ \E ok \in BOOLEAN :
         IF ok THEN Goes("approve", ApproveAmount(allowance, loc.offerWei), "mo_approveWait")
         ELSE Throws("approveRejected", ApproveAmount(allowance, loc.offerWei),
                     "approve rejected", "mo_catch")
    /\ UNCHANGED <<mem, i, loc, loopFrame, chain, prevs>>

\* await tx.wait(): the confirmed approval sets the allowance of Seaport
ApproveWait ==
    /\ pc = "mo_approveWait"
    /\ \/ /\ allowance' = call.steps[Len(call.steps)].val
          /\ Goes("approveWait", 1, "mo_royalty")
          /\ prevApprove' = NextPrev(prevApprove, loc.offerWei, 1)
       \/ /\ Throws("approveWait", -1, "approve reverted", "mo_catch")
          /\ UNCHANGED <<allowance, prevApprove>>
    /\ UNCHANGED <<mem, i, loc, loopFrame, wethBalance, prevWrap>>

\* 3. getRoyaltyInfo returns { recipient, basisPoints } of the response, or null
\* when the request fails; makeOffer substitutes the fallback for null
OfferRoyalty ==
    /\ pc = "mo_royalty"
    /\ \/ \E r \in RoyaltyRecipients, bp \in RoyaltyBasisPoints :
            /\ loc' = [loc EXCEPT !.royalty =
                           RoyaltyOrFallback([recipient |-> r, basisPoints |-> bp])]
            /\ Goes("getRoyaltyInfo", bp, "mo_create")
       \/ /\ loc' = [loc EXCEPT !.royalty = RoyaltyOrFallback(NullRoyalty)]
          /\ Goes("getRoyaltyInfo", -1, "mo_create")
    /\ UNCHANGED <<mem, i, loopFrame, chain, prevs>>

\* the terms makeOffer passes to this.seaport.createOrder
OrderTerms(offerAmountWei, royaltyInfo, assetContract, tokenId) ==
    [offerAmount |-> offerAmountWei,
     nftToken |-> assetContract,
     nftIdentifier |-> tokenId,
     nftRecipient |-> walletAddress,
     royaltyAmount |-> RoyaltyAmount(offerAmountWei, royaltyInfo.basisPoints),
     royaltyRecipient |-> royaltyInfo.recipient]

\* 4. const { executeAllActions } = await this.seaport.createOrder({...})
OfferCreate ==
    /\ pc = "mo_create"
    /\ LET terms == OrderTerms(loc.offerWei, loc.royalty, call.contract, call.tokenId)
       IN  \E ok \in BOOLEAN :
             IF ok
             THEN /\ loc' = [loc EXCEPT !.created = <<terms>>]
                  /\ Goes("createOrder", terms.royaltyAmount, "mo_sign")
             ELSE /\ loc' = loc
                  /\ Throws("createOrder", -1, "createOrder rejected", "mo_catch")
    /\ UNCHANGED <<mem, i, loopFrame, chain, prevs>>

\* 5. const order = await executeAllActions()
OfferSign ==
    /\ pc = "mo_sign"
    /\ \E ok \in BOOLEAN :
         IF ok THEN Goes("executeAllActions", 1, "mo_post")
         ELSE Throws("executeAllActions", -1, "signing rejected", "mo_catch")
    /\ UNCHANGED <<mem, i, loc, loopFrame, chain, prevs>>

\* const orderHash = await this.postOfferToOpenSea(order); return {...}
OfferPost ==
    /\ pc = "mo_post"
    /\ \E ok \in BOOLEAN :
         IF ok THEN Returns("postOfferToOpenSea", 1)
         ELSE Throws("postOfferToOpenSea", -1, "post rejected", "mo_catch") /\ UNCHANGED i
    /\ UNCHANGED <<mem, loc, loopFrame, chain, prevs>>

MakeOfferCatchRevoke ==
    /\ pc = "mo_catch"
    /\ call' = [call EXCEPT !.outcome = "threw"]
    /\ pc' = "catch"
    /\ allowance' = 0
    /\ UNCHANGED <<mem, i, loc, loopFrame, wethBalance, prevs>>

\* catch (error) { console.error('MakeOffer error:', ...); throw error; }
MakeOfferCatch ==
    /\ pc = "mo_catch"
    /\ call' = [call EXCEPT !.outcome = "threw"]
    /\ pc' = "catch"
    /\ UNCHANGED <<mem, i, loc, loopFrame, chain, prevs>>

(***************************************************************************)
(* Specifications                                                          *)
(***************************************************************************)
Next ==
    \/ FetchNewListings
    \/ ForSkip
    \/ ForBadPrice
    \/ ForDispatch
    \/ ForDone
    \/ MonitorCatch
    \/ DelayElapsed
    \/ BuyFetchOrder
    \/ BuyValidate
    \/ BuyFulfill
    \/ BuyBuild
    \/ BuyGas
    \/ BuySend
    \/ BuyWait
    \/ BuyNowCatch
    \/ OfferParse
    \/ WrapBalanceOf
    \/ WrapDeposit
    \/ WrapWait
    \/ ApproveAllowance
    \/ ApproveSend
    \/ ApproveWait
    \/ OfferRoyalty
    \/ OfferCreate
    \/ OfferSign
    \/ OfferPost
    \/ MakeOfferCatch

Spec == Init /\ [][Next]_vars

\* every awaited call and every timer eventually completes
FairSpec == Spec /\ WF_vars(Next)

\* the same program with the history of the previous cycle's first dispatch
ListingsSpec == InitListings /\ [][Next]_vars

\* the same program with the history of the last failed makeOffer
OffersSpec == InitOffers /\ [][Next]_vars

\* a stop is requested from outside (an operator, a signal); the stop signal
\* of the specification has no counterpart in monitorCollection, which takes
\* only collectionSlug and loops on while (true)
RequestStop ==
    /\ ~mem.stop
    /\ mem' = [mem EXCEPT !.stop = TRUE]
    /\ UNCHANGED <<pc, listings, i, fetchFailed, sleeps, calls, call, loc, chain, prevs>>

NextStop == Next \/ RequestStop

\* the program with stop requests; its own steps are fair
StopSpec == Init /\ [][NextStop]_vars /\ WF_vars(Next)

(***************************************************************************)
(* Properties                                                              *)
(***************************************************************************)
\* the value recorded by the first step op of the call in progress
StepVal(op) ==
    LET k == CHOOSE k \in 1..Len(call.steps) :
                 /\ call.steps[k].op = op
                 /\ \A m \in 1..(k - 1) : call.steps[m].op # op
    IN  call.steps[k].val

InBuyNow == call.fn = "buyNow"
InMakeOffer == call.fn = "makeOffer"
CycleOver == pc \in {"delay"}
Terminated == pc \in {"returned", "thrown"}

\* C1: every executor invocation of the cycle matches its listing: a price
\* below buyThreshold gives buyNow(contract, tokenId, price) and no makeOffer,
\* a price at or above it gives makeOffer(contract, tokenId, price *
\* offerPercentage) and no buyNow; a listing is dispatched at most once.
C1_Classification ==
    /\ \A k \in 1..Len(calls) :
         LET c == calls[k]
             l == listings[c.idx]
             p == l.ending_price
         IN  /\ l.asset
             /\ c.contract = l.contract
             /\ c.tokenId = l.token_id
             /\ (p < buyThreshold) =>
                    (c.fn = "buyNow" /\ c.amount = p * offerPercentageDen)
             /\ (p >= buyThreshold) =>
                    (c.fn = "makeOffer" /\ c.amount = p * offerPercentageNum)
    /\ \A j, k \in 1..Len(calls) : calls[j].idx = calls[k].idx => j = k
    /\ (call.outcome = "running") =>
          /\ Len(calls) > 0
          /\ calls[Len(calls)].idx = i
          /\ calls[Len(calls)].fn = call.fn
          /\ calls[Len(calls)].amount = call.amount

\* a cycle bought below the threshold and made an offer at the threshold
C1_Witness ==
    /\ \E k \in 1..Len(calls) :
         calls[k].fn = "buyNow" /\ listings[calls[k].idx].ending_price < buyThreshold
    /\ \E k \in 1..Len(calls) :
         calls[k].fn = "makeOffer" /\ listings[calls[k].idx].ending_price = buyThreshold

\* C2: when the executor of a listing throws, the executor of every later
\* listing of the batch with a resolvable asset is still invoked in the same
\* cycle.
C2_BatchSurvivesExecutorFailure ==
    (CycleOver /\ call.outcome = "threw") =>
        \A k \in 1..Len(listings) :
            (/\ k > calls[Len(calls)].idx
             /\ listings[k].asset
             /\ listings[k].ending_price # NoPrice)
            => \E m \in 1..Len(calls) : calls[m].idx = k

\* C3 as stated: a failed FETCH is followed by exactly one sleep of
\* errorRetryDelay before the next FETCH.
C3_FetchFailureRetryDelay ==
    fetchFailed =>
        /\ ~Terminated
        /\ pc \in {"delay", "fetch"} => sleeps = <<errorRetryDelay>>

\* C3 amended: a failed FETCH does not raise out of monitorCollection; it is
\* handled as an empty batch, no executor runs, and the loop performs exactly
\* one sleep of pollingInterval before it attempts FETCH again.
C3_FetchFailurePollingDelay ==
    fetchFailed =>
        /\ pc \in {"for", "delay", "fetch"}
        /\ listings = <<>>
        /\ calls = <<>>
        /\ pc = "for" => sleeps = <<>>
        /\ pc \in {"delay", "fetch"} => sleeps = <<pollingInterval>>

\* the loop is back at FETCH after a failed FETCH and its one sleep
C3_Witness == fetchFailed /\ pc = "fetch" /\ sleeps = <<pollingInterval>>

\* C4: monitorCollection neither returns nor throws, whatever fails, and when
\* every awaited call and timer completes a further FETCH is always
\* eventually issued.
C4_NeverTerminates == [](~Terminated) /\ []<>(pc = "fetch")

\* the loop is back at FETCH after an exception escaped the cycle
C4_Witness == pc = "fetch" /\ sleeps = <<errorRetryDelay>>

\* C5: a buyNow call whose order lookup gave no order (empty list or failed
\* request) throws 'No valid order found' to its caller and attempts no
\* validation, no fulfillment building and no transaction submission.
C5_NoOrderNoSubmission ==
    (InBuyNow /\ loc.order \in {"undefined", "null"}) =>
        /\ ~Did("validate")
        /\ ~Did("fulfillOrder")
        /\ ~Did("buildTransaction")
        /\ ~Did("getGasPrice")
        /\ ~Did("sendTransaction")
        /\ call.error = "No valid order found"
        /\ pc \in {"bn_catch", "catch", "delay"}
        /\ pc \in {"catch", "delay"} => call.outcome = "threw"

\* buyNow has thrown to the loop after an empty order list
C5_Witness ==
    /\ InBuyNow /\ loc.order = "undefined"
    /\ pc = "catch" /\ call.outcome = "threw"

\* C6: in buyNow a gas price strictly above the ceiling makes the call fail
\* with no transaction submitted; a gas price at or below the ceiling passes
\* and the call proceeds to sendTransaction with that gas price.
C6_GasGuard ==
    (InBuyNow /\ Did("getGasPrice") /\ StepVal("getGasPrice") >= 0) =>
        LET g == StepVal("getGasPrice")
        IN  /\ (g > maxGasPriceWei) =>
                  /\ ~Did("sendTransaction")
                  /\ call.error = "Gas price too high"
                  /\ pc \in {"bn_catch", "catch", "delay"}
            /\ (g <= maxGasPriceWei) =>
                  /\ call.error # "Gas price too high"
                  /\ pc = "bn_send" \/ Did("sendTransaction")
                  /\ (Did("sendTransaction") /\ StepVal("sendTransaction") >= 0)
                        => StepVal("sendTransaction") = g

\* a transaction was submitted at a gas price equal to the ceiling
C6_Witness ==
    /\ InBuyNow /\ Did("getGasPrice") /\ StepVal("getGasPrice") = maxGasPriceWei
    /\ Did("sendTransaction") /\ StepVal("sendTransaction") = maxGasPriceWei

WrapReturned == InMakeOffer /\ (pc = "mo_allowance" \/ Did("allowance"))
ApproveReturned == InMakeOffer /\ (pc = "mo_royalty" \/ Did("getRoyaltyInfo"))

\* C7: wrapEthIfNeeded with required amount r and balance b submits no
\* transaction when b >= r; when b < r it submits one deposit of exactly
\* r - b and returns only after its confirmation, with the balance at r.  A
\* call that follows a returned call with the same r submits nothing, so the
\* two submit at most one deposit in total.
C7_WrapExactlyDeficit ==
    /\ (InMakeOffer /\ Did("balanceOf") /\ StepVal("balanceOf") >= 0) =>
          LET b == StepVal("balanceOf")
              r == loc.offerWei
          IN  /\ CountOf("deposit") + CountOf("depositRejected") <= 1
              /\ (b >= r) =>
                    /\ ~Did("deposit") /\ ~Did("depositRejected")
                    /\ WrapReturned
                    /\ wethBalance = b
              /\ (b < r) =>
                    /\ pc = "mo_deposit" \/ Did("deposit") \/ Did("depositRejected")
                    /\ Did("deposit") => StepVal("deposit") = r - b
                    /\ Did("depositRejected") => StepVal("depositRejected") = r - b
                    /\ WrapReturned =>
                          /\ Did("deposit")
                          /\ Did("depositWait") /\ StepVal("depositWait") = 1
                          /\ wethBalance = r
    /\ (prevWrap.priorTxs >= 0) =>
          /\ prevWrap.txs = 0
          /\ prevWrap.priorTxs + prevWrap.txs <= 1

\* a call wrapped a deficit on top of a non-zero balance, after a pair of
\* calls with the same amount of which only the first wrapped
C7_Witness ==
    /\ WrapReturned
    /\ StepVal("balanceOf") > 0 /\ StepVal("balanceOf") < loc.offerWei
    /\ Did("depositWait") /\ StepVal("depositWait") = 1
    /\ \E k \in 1..Len(calls), m \in 1..Len(calls) :
          /\ k < m /\ m < Len(calls)
          /\ calls[k].fn = "makeOffer" /\ calls[m].fn = "makeOffer"
          /\ calls[k].amount = calls[m].amount

\* C8: approveWeth with required amount r and allowance a submits nothing
\* and leaves the allowance alone when a >= r; when a < r it submits one
\* approval of exactly r and returns only after its confirmation, with the
\* allowance at r.  A call that follows a returned call with the same r
\* submits nothing.
C8_ApproveOnlyOnDeficit ==
    /\ (InMakeOffer /\ Did("allowance") /\ StepVal("allowance") >= 0) =>
          LET a == StepVal("allowance")
              r == loc.offerWei
          IN  /\ CountOf("approve") + CountOf("approveRejected") <= 1
              /\ (a >= r) =>
                    /\ ~Did("approve") /\ ~Did("approveRejected")
                    /\ ApproveReturned
                    /\ allowance = a
              /\ (a < r) =>
                    /\ pc = "mo_approve" \/ Did("approve") \/ Did("approveRejected")
                    /\ Did("approve") => StepVal("approve") = r
                    /\ Did("approveRejected") => StepVal("approveRejected") = r
                    /\ ApproveReturned =>
                          /\ Did("approve")
                          /\ Did("approveWait") /\ StepVal("approveWait") = 1
                          /\ allowance = r
    /\ (prevApprove.priorTxs >= 0) => prevApprove.txs = 0

\* the second of two successive calls with the same amount returned without
\* an approval after the first one approved
C8_Witness ==
    /\ prevApprove.priorTxs = 1 /\ prevApprove.txs = 0
    /\ ApproveReturned /\ StepVal("allowance") = loc.offerWei

\* C9: the royalty lookup never makes makeOffer throw; after a failed lookup
\* the order is constructed with the fallback recipient and 1000 basis points,
\* after a successful one with the recipient and basis points looked up.
C9_RoyaltyFallback ==
    (InMakeOffer /\ Did("getRoyaltyInfo")) =>
        LET v == StepVal("getRoyaltyInfo")
        IN  /\ (call.steps[Len(call.steps)].op = "getRoyaltyInfo") =>
                  (pc = "mo_create" /\ call.error = "none")
            /\ (v = -1) =>
                  loc.royalty = [recipient |-> fallbackRecipient,
                                 basisPoints |-> fallbackBasisPoints]
            /\ (v >= 0) =>
                  (loc.royalty.basisPoints = v /\ loc.royalty.recipient \in RoyaltyRecipients)
            /\ (loc.created # <<>>) =>
                  LET o == loc.created[1]
                  IN  /\ o.royaltyRecipient = loc.royalty.recipient
                      /\ (v = -1) =>
                            /\ o.royaltyRecipient = fallbackRecipient
                            /\ o.royaltyAmount * 10000 <= o.offerAmount * 1000
                            /\ o.offerAmount * 1000 - o.royaltyAmount * 10000 < 10000

\* an order was constructed with the fallback after a failed lookup
C9_Witness ==
    /\ InMakeOffer /\ Did("getRoyaltyInfo") /\ StepVal("getRoyaltyInfo") = -1
    /\ loc.created # <<>>
    /\ loc.created[1].royaltyRecipient = fallbackRecipient
    /\ call.outcome = "returned"

\* C10: the royalty leg of every constructed order is
\* floor(offerAmount * basisPoints / 10000) for basisPoints in 0..10000 (the
\* product is compared where it fits 32 bits), it never exceeds the offered
\* amount, and 1,000,000 base units at 1000 basis points give 100,000.
C10_RoyaltyLeg ==
    (loc.created # <<>>) =>
        LET o == loc.created[1]
            a == o.offerAmount
            bp == loc.royalty.basisPoints
            leg == o.royaltyAmount
        IN  (bp \in 0..10000) =>
                /\ 0 <= leg /\ leg <= a
                /\ (bp = 0 \/ a <= 2147483647 \div bp) =>
                      /\ leg * 10000 <= a * bp
                      /\ a * bp - leg * 10000 < 10000
                /\ (bp = 10000) => leg = a
                /\ (a = 1000000 /\ bp = 1000) => leg = 100000

\* the example of the specification: 1,000,000 base units at 1000 basis points
C10_Witness ==
    /\ loc.created # <<>>
    /\ loc.created[1].offerAmount = 1000000
    /\ loc.royalty.basisPoints = 1000
    /\ loc.created[1].royaltyAmount = 100000

\* C12: buyNow returns a result only after its seven steps succeeded in order
\* (order found, valid, fulfillment built, transaction built, gas check
\* passed, transaction submitted, receipt with success status); a failed step
\* ends the call with the error rethrown and no result, and a call submits at
\* most one transaction.
BuyOps == <<"fetchListingOrder", "validate", "fulfillOrder", "buildTransaction",
            "getGasPrice", "sendTransaction", "wait">>

BuyStepOk(s) ==
    CASE s.op = "fetchListingOrder" -> loc.order = "order"
      [] s.op = "getGasPrice" -> s.val >= 0 /\ s.val <= maxGasPriceWei
      [] s.op = "sendTransaction" -> s.val >= 0
      [] OTHER -> s.val = 1

C12_BuyNowAllOrNothing ==
    InBuyNow =>
        LET n == Len(call.steps)
        IN  /\ n <= Len(BuyOps)
            /\ \A k \in 1..n : call.steps[k].op = BuyOps[k]
            /\ \A k \in 1..(n - 1) : BuyStepOk(call.steps[k])
            /\ CountOf("sendTransaction") <= 1
            /\ (call.outcome = "returned") =>
                  /\ n = Len(BuyOps)
                  /\ \A k \in 1..n : BuyStepOk(call.steps[k])
                  /\ call.error = "none"
            /\ (n > 0 /\ ~BuyStepOk(call.steps[n])) =>
                  /\ call.error # "none"
                  /\ call.outcome # "returned"
                  /\ pc \in {"bn_catch", "catch", "delay"}
                  /\ pc \in {"catch", "delay"} => call.outcome = "threw"

\* buyNow returned its result after a confirmed transaction
C12_Witness ==
    /\ InBuyNow /\ call.outcome = "returned"
    /\ Did("wait") /\ StepVal("wait") = 1

\* C13: makeOffer runs parse, wrap, approve, royalty lookup, createOrder,
\* signing and posting in this order; the allowance is read only after a
\* needed deposit was confirmed, the order is constructed only after a needed
\* approval was confirmed, a failed step ends the call with the error and
\* nothing after it, and a result is returned only after a successful post.
OfferRank(op) ==
    CASE op = "parseEther" -> 1
      [] op = "balanceOf" -> 2
      [] op \in {"deposit", "depositRejected"} -> 3
      [] op = "depositWait" -> 4
      [] op = "allowance" -> 5
      [] op \in {"approve", "approveRejected"} -> 6
      [] op = "approveWait" -> 7
      [] op = "getRoyaltyInfo" -> 8
      [] op = "createOrder" -> 9
      [] op = "executeAllActions" -> 10
      [] op = "postOfferToOpenSea" -> 11
      [] OTHER -> 0

OfferStepOk(s) ==
    /\ s.op \notin {"depositRejected", "approveRejected"}
    /\ s.val >= 0 \/ s.op = "getRoyaltyInfo"

C13_MakeOfferOrder ==
    InMakeOffer =>
        LET n == Len(call.steps)
            r == loc.offerWei
        IN  /\ \A k \in 1..n : OfferRank(call.steps[k].op) > 0
            /\ \A k \in 1..(n - 1) :
                  /\ OfferRank(call.steps[k].op) < OfferRank(call.steps[k + 1].op)
                  /\ OfferStepOk(call.steps[k])
            /\ Did("allowance") =>
                  /\ Did("balanceOf")
                  /\ StepVal("balanceOf") >= r
                       \/ (Did("deposit") /\ Did("depositWait") /\ StepVal("depositWait") = 1)
            /\ Did("getRoyaltyInfo") =>
                  /\ Did("allowance")
                  /\ StepVal("allowance") >= r
                       \/ (Did("approve") /\ Did("approveWait") /\ StepVal("approveWait") = 1)
            /\ Did("createOrder") => Did("getRoyaltyInfo")
            /\ Did("executeAllActions") => (Did("createOrder") /\ loc.created # <<>>)
            /\ Did("postOfferToOpenSea") => Did("executeAllActions")
            /\ (call.outcome = "returned") =>
                  /\ call.steps[n].op = "postOfferToOpenSea"
                  /\ \A k \in 1..n : OfferStepOk(call.steps[k])
                  /\ call.error = "none"
            /\ (n > 0 /\ ~OfferStepOk(call.steps[n])) =>
                  /\ call.error # "none"
                  /\ call.outcome # "returned"
                  /\ pc \in {"mo_catch", "catch", "delay"}
                  /\ pc \in {"catch", "delay"} => call.outcome = "threw"

\* makeOffer returned its result after a confirmed wrap and a confirmed approval
C13_Witness ==
    /\ InMakeOffer /\ call.outcome = "returned"
    /\ Did("depositWait") /\ Did("approveWait")

\* C14 as stated: every transaction the bot submits (purchase, deposit,
\* approval) is immediately preceded by a gas price read that passed the
\* ceiling check.
C14_GasGuardBeforeEveryTx ==
    \A k \in 1..Len(call.steps) :
        (call.steps[k].op \in {"sendTransaction", "deposit", "approve"}) =>
            /\ k > 1
            /\ call.steps[k - 1].op = "getGasPrice"
            /\ call.steps[k - 1].val >= 0
            /\ call.steps[k - 1].val <= maxGasPriceWei

\* C14 amended: the purchase transaction of buyNow is immediately preceded by
\* a gas price read that passed the ceiling check, and is not submitted when
\* the read exceeds the ceiling; makeOffer reads no gas price, its deposit and
\* approval are submitted unchecked.
C14_GasGuardBeforePurchase ==
    /\ InBuyNow =>
          \A k \in 1..Len(call.steps) :
              (call.steps[k].op = "sendTransaction") =>
                  /\ k > 1
                  /\ call.steps[k - 1].op = "getGasPrice"
                  /\ call.steps[k - 1].val >= 0
                  /\ call.steps[k - 1].val <= maxGasPriceWei
    /\ InMakeOffer => ~Did("getGasPrice")

\* a purchase was submitted right after a passing gas price read
C14_Witness ==
    /\ InBuyNow /\ pc = "bn_wait"
    /\ call.steps[Len(call.steps)].op = "sendTransaction"
    /\ call.steps[Len(call.steps) - 1].op = "getGasPrice"

\* C15: at most one executor call is in flight: a call is running exactly
\* while the task is inside that executor, the loop is back at the for
\* statement only with every invoked executor completed, executors are invoked
\* in batch order, and no call is in flight when FETCH is issued.
ExecutorPcs ==
    {"bn_fetchOrder", "bn_validate", "bn_fulfill", "bn_build", "bn_gas", "bn_send",
     "bn_wait", "bn_catch",
     "mo_parse", "mo_balanceOf", "mo_deposit", "mo_depositWait", "mo_allowance",
     "mo_approve", "mo_approveWait", "mo_royalty", "mo_create", "mo_sign", "mo_post",
     "mo_catch"}

C15_Sequential ==
    /\ (call.outcome = "running") <=> (pc \in ExecutorPcs)
    /\ (pc \in ExecutorPcs) =>
          /\ Len(calls) > 0
          /\ calls[Len(calls)].idx = i
          /\ \A k \in 1..(Len(calls) - 1) : calls[k].idx < i
    /\ \A k \in 1..(Len(calls) - 1) : calls[k].idx < calls[k + 1].idx
    /\ (pc = "for") =>
          /\ call.outcome \in {"none", "returned"}
          /\ \A k \in 1..Len(calls) : calls[k].idx < i
    /\ (pc = "fetch") => (call = NoCall /\ calls = <<>>)

\* the executor of a second listing runs after the first one completed
C15_Witness ==
    /\ pc \in ExecutorPcs
    /\ Len(calls) = 2
    /\ call.outcome = "running"

\* C16: when the for loop ran through the whole batch (every listing
\* processed without error, or an empty batch) the loop sleeps exactly once,
\* for pollingInterval.
C16_PollingDelayAfterDispatch ==
    (pc = "delay" /\ i > Len(listings)) =>
        /\ sleeps = <<pollingInterval>>
        /\ call.outcome # "threw"

\* a batch of two dispatched listings was processed and the loop sleeps
C16_Witness ==
    /\ pc = "delay" /\ i > Len(listings)
    /\ Len(calls) = 2
    /\ sleeps = <<pollingInterval>>

\* C17: a listing with no asset or with no price gets no executor call and
\* raises no error: an exception reaches the loop's catch only from the
\* executor of a listing that has both.
Resolvable(l) == l.asset /\ l.ending_price # NoPrice

C17_UnresolvableListingSkipped ==
    /\ \A k \in 1..Len(calls) : Resolvable(listings[calls[k].idx])
    /\ (pc \in {"catch", "delay"} /\ i <= Len(listings)) => Resolvable(listings[i])

\* C18: exactly one delay is started between two consecutive FETCH requests:
\* pollingInterval when the try block completed, errorRetryDelay when an
\* exception escaped, and FETCH is issued only when that delay has elapsed.
C18_OneSleepPerCycle ==
    /\ [](/\ Len(sleeps) <= 1
          /\ (pc \notin {"delay", "fetch"}) => sleeps = <<>>
          /\ (pc = "delay") =>
                /\ Len(sleeps) = 1
                /\ (i > Len(listings)) => sleeps[1] = pollingInterval
                /\ (i <= Len(listings)) => sleeps[1] = errorRetryDelay)
    /\ [][(pc # "fetch" /\ pc' = "fetch") =>
              (pc = "delay" /\ Len(sleeps) = 1 /\ sleeps' = sleeps)]_vars

\* the loop is back at FETCH after one pollingInterval delay of a cycle
\* whose fetch succeeded
C18_Witness ==
    /\ pc = "fetch" /\ ~fetchFailed
    /\ sleeps = <<pollingInterval>>

\* C11: once a stop is requested the loop takes it at the top of its next
\* cycle: when the delay in progress elapses with a stop requested, no
\* further FETCH is issued (and monitorCollection returns).
C11_StopTakesEffect ==
    [][(mem.stop /\ pc = "delay") => pc' # "fetch"]_vars

\* C19: a listing that was dispatched in the previous cycle and is in the
\* batch of this cycle again is dispatched in this cycle too.
C19_RepeatedListingDispatched ==
    (/\ CycleOver
     /\ mem.prevFirst.asset
     /\ \E k \in 1..Len(listings) : listings[k] = mem.prevFirst)
    => \E m \in 1..Len(calls) : listings[calls[m].idx] = mem.prevFirst

\* C20: makeOffer never undoes its prerequisites: the bot never lowers the
\* WETH balance or the allowance; once a call's wrap (approval) was confirmed
\* the balance (allowance) covers its amount whatever happens later in the
\* call; and a makeOffer with the amount of an earlier makeOffer that failed
\* after its wrap (and approval) submits no further deposit (and approval).
C20_NoRollback ==
    /\ [](/\ (InMakeOffer /\ Did("allowance")) => wethBalance >= loc.offerWei
          /\ (InMakeOffer /\ Did("getRoyaltyInfo")) => allowance >= loc.offerWei
          /\ (/\ InMakeOffer /\ pc # "delay"
              /\ Did("parseEther") /\ loc.offerWei = mem.failedOffer) =>
                 /\ ~Did("deposit") /\ ~Did("depositRejected")
                 /\ mem.failedApproved =>
                       (~Did("approve") /\ ~Did("approveRejected")))
    /\ [][wethBalance' >= wethBalance /\ allowance' >= allowance]_vars

\* a makeOffer that failed after its wrap and approval was retried with the
\* same amount and returned without a deposit or an approval
C20_Witness ==
    /\ InMakeOffer /\ call.outcome = "returned"
    /\ loc.offerWei = mem.failedOffer /\ mem.failedApproved
    /\ ~Did("deposit") /\ ~Did("approve")

====
